---- MODULE Spec2Model ----
(***************************************************************************)
(* Model of sale.payment (src/payment.py): the derived amounts of a        *)
(* payment, the authorize / capture / cancel delegation to the gateway     *)
(* transaction model, the deletion guard, the payment description and the  *)
(* credit_account migration of __register__.                               *)
(*                                                                         *)
(* Three specifications share the variables:                               *)
(*   Spec          payments, their transactions and the record operations  *)
(*   SpecDesc      get_method / get_payment_description on drawn inputs    *)
(*   SpecRegister  successive module registrations of one deployment       *)
(***************************************************************************)
EXTENDS Integers, Sequences, FiniteSets, TLC

\* ---------------------------------------------------------------- bounds
NumPayments == 2
MaxTxns == 3
MaxTxnAmount == 1
MaxAmount == 1
MaxRegistrations == 3
NumAccounts == 2
NumDigitChars == 3

Payments == 1..NumPayments
TxnAmounts == 1..MaxTxnAmount
PaymentAmounts == 1..MaxAmount
Accounts == 1..NumAccounts

\* ------------------------------------------------------------- constants
\* Lifecycle states of payment_gateway.transaction that sale.payment names.
TxnStates == {"draft", "authorized", "in-progress", "completed", "posted", "cancelled"}

NoError == "none"
NoCall == [op |-> "none", arg |-> <<>>, error |-> NoError, ext |-> <<>>]
NULL == 0
None == "None"

VARIABLES
    payments,       \* ids of the sale.payment rows that exist
    amount,         \* amount[p]: the `amount` field of payment p
    txns,           \* payment_gateway.transaction rows, id = index
    lastCall,       \* the last operation: its arguments, error, external calls
    everConsumed,   \* history: payments whose amount_consumed was ever nonzero
    gateway,        \* SpecDesc: the payment's gateway record, or None
    payment_profile,\* SpecDesc: the payment's profile record, or None
    description,    \* SpecDesc: last value returned by get_payment_description
    columnExists,   \* SpecRegister: the credit_account column is in the table
    credit_account, \* SpecRegister: credit_account[p], NULL when unset
    property,       \* SpecRegister: ir.property value the migration joins to p
    registrations,  \* SpecRegister: number of __register__ calls so far
    migrationRuns,  \* SpecRegister: number of times the back-fill UPDATE ran
    lastRegister    \* SpecRegister: what the last __register__ call did

ledgerVars == <<payments, amount, txns, lastCall, everConsumed>>
descVars == <<gateway, payment_profile, description>>
registerVars == <<columnExists, credit_account, property, registrations,
                  migrationRuns, lastRegister>>
vars == <<payments, amount, txns, lastCall, everConsumed,
          gateway, payment_profile, description,
          columnExists, credit_account, property, registrations,
          migrationRuns, lastRegister>>

\* --------------------------------------------------------------- helpers
RECURSIVE sum_transactions(_)
\* sum((txn.amount for txn in txns)) over a list of transaction ids
sum_transactions(ids) ==
    IF ids = <<>> THEN 0
    ELSE txns[Head(ids)].amount + sum_transactions(Tail(ids))

\* PaymentTransaction.search([('sale_payment', '=', p)]) and the One2Many
\* payment.payment_transactions: the ids of p's transactions, in id order.
payment_transactions(p) ==
    LET ids == [i \in 1..Len(txns) |-> i]
        Mine(i) == txns[i].sale_payment = p
    IN SelectSeq(ids, Mine)

\* filter(lambda t: t.state in states, ids)
filter_state(states, ids) ==
    LET Keep(i) == txns[i].state \in states
    IN SelectSeq(ids, Keep)

Max(a, b) == IF a >= b THEN a ELSE b

ConsumedStates == {"authorized", "completed", "posted"}
AuthorizedStates == {"authorized"}
CapturedStates == {"completed", "posted"}

get_amount_consumed_counting_in_progress(p) ==
    sum_transactions(filter_state({"authorized", "in-progress", "completed", "posted"},
                                  payment_transactions(p)))

get_amount_consumed(p) ==
    sum_transactions(filter_state(ConsumedStates, payment_transactions(p)))

get_amount_authorized(p) ==
    sum_transactions(filter_state(AuthorizedStates, payment_transactions(p)))

get_amount_captured(p) ==
    sum_transactions(filter_state(CapturedStates, payment_transactions(p)))

get_amount_available_unfloored(p) == amount[p] - get_amount_consumed(p)

get_amount_available(p) == Max(amount[p] - get_amount_consumed(p), 0)

\* Payment.get_amount(self, name)
get_amount(p, name) ==
    CASE name = "amount_consumed" -> get_amount_consumed(p)
      [] name = "amount_authorized" -> get_amount_authorized(p)
      [] name = "amount_captured" -> get_amount_captured(p)
      [] name = "amount_available" -> get_amount_available(p)
      [] OTHER -> None

\* ------------------------------------------- gateway transaction model
\* States PaymentTransaction.authorize / capture / cancel may leave a
\* forwarded transaction in.  The transaction model enforces its own state
\* machine: a transaction it does not accept stays as it is.
ExtOutcomes(op, st) ==
    CASE op = "authorize" ->
            IF st = "draft" THEN {st, "in-progress", "authorized"} ELSE {st}
      [] op = "capture" ->
            IF st \in {"draft", "authorized", "in-progress"}
            THEN {st, "in-progress", "completed", "posted"} ELSE {st}
      [] op = "cancel" ->
            IF st \in {"draft", "in-progress", "authorized"}
            THEN {st, "cancelled"} ELSE {st}

Range(s) == {s[i] : i \in DOMAIN s}

RECURSIVE Flatten(_)
Flatten(calls) ==
    IF calls = <<>> THEN <<>> ELSE Head(calls) \o Flatten(Tail(calls))

\* One call PaymentTransaction.<op>(ids): only the forwarded rows can change.
External(op, ids) ==
    \E out \in [Range(ids) -> TxnStates] :
        /\ \A i \in Range(ids) : out[i] \in ExtOutcomes(op, txns[i].state)
        /\ txns' = [i \in DOMAIN txns |->
                        IF i \in Range(ids)
                        THEN [txns[i] EXCEPT !.state = out[i]]
                        ELSE txns[i]]

\* ------------------------------------------------ arguments of the calls
authorize_args_any_state(p) == payment_transactions(p)

\* filter(lambda txn: txn.state == 'draft', self.payment_transactions)
authorize_args(p) == filter_state({"draft"}, payment_transactions(p))

capture_args_any_state(p) ==
    filter_state(TxnStates \ {"cancelled"}, payment_transactions(p))

\* filter(lambda txn: txn.state in ('draft', 'authorized', 'in-progress'), ...)
capture_args(p) ==
    filter_state({"draft", "authorized", "in-progress"}, payment_transactions(p))

RECURSIVE cancel_args(_)
\* payment_transactions = []; for payment in payments: extend(...)
cancel_args(batch) ==
    IF batch = <<>> THEN <<>>
    ELSE payment_transactions(Head(batch)) \o cancel_args(Tail(batch))

RECURSIVE cancel_calls_per_payment(_)
cancel_calls_per_payment(batch) ==
    IF batch = <<>> THEN <<>>
    ELSE <<payment_transactions(Head(batch))>> \o cancel_calls_per_payment(Tail(batch))

\* The calls Payment.cancel makes to PaymentTransaction.cancel.
cancel_calls(batch) == <<cancel_args(batch)>>

\* Index of the first payment of the batch with a truthy amount_consumed,
\* 0 when the loop of Payment.delete finishes without raising.
first_consumed(batch) ==
    LET bad == {i \in DOMAIN batch : get_amount(batch[i], "amount_consumed") # 0}
    IN IF bad = {} THEN 0 ELSE CHOOSE i \in bad : \A j \in bad : i <= j

delete_outcome_captured_only(batch) ==
    IF \E i \in DOMAIN batch : get_amount(batch[i], "amount_captured") # 0
    THEN [error |-> "cannot_delete_payment", super_calls |-> <<>>]
    ELSE [error |-> NoError, super_calls |-> <<batch>>]

delete_outcome_eager(batch) ==
    LET k == first_consumed(batch)
    IN IF k # 0
       THEN [error |-> "cannot_delete_payment",
             super_calls |-> [i \in 1..(k - 1) |-> <<batch[i]>>]]
       ELSE [error |-> NoError,
             super_calls |-> [i \in DOMAIN batch |-> <<batch[i]>>]]

delete_outcome_unguarded(batch) ==
    [error |-> NoError, super_calls |-> <<batch>>]

\* Payment.delete: the error raised, and the calls made to super().delete.
delete_outcome(batch) ==
    IF first_consumed(batch) # 0
    THEN [error |-> "cannot_delete_payment", super_calls |-> <<>>]
    ELSE [error |-> NoError, super_calls |-> <<batch>>]

\* Payment._create_payment_transaction: the new record's fields the payment
\* model reads back (amount is the currency-rounded amount handed in).
_create_payment_transaction(p, a) ==
    [sale_payment |-> p, amount |-> a, state |-> "draft"]

\* ----------------------------------------------------------- operations
\* Lists of distinct existing payments, the argument of cancel and delete.
Batches ==
    {b \in UNION {[1..n -> payments] : n \in 0..Cardinality(payments)} :
        \A i, j \in DOMAIN b : i # j => b[i] # b[j]}

Record(op, arg, error, ext) ==
    lastCall' = [op |-> op, arg |-> arg, error |-> error, ext |-> ext]

Remember ==
    everConsumed' = everConsumed \cup
        {p \in payments' : get_amount(p, "amount_consumed")' # 0}

CreateTransaction(p, a) ==
    /\ p \in payments
    /\ Len(txns) < MaxTxns
    /\ txns' = Append(txns, _create_payment_transaction(p, a))
    /\ Record("create", <<p>>, NoError, <<>>)
    /\ UNCHANGED <<payments, amount>>
    /\ Remember
    /\ UNCHANGED <<descVars, registerVars>>

Authorize(p) ==
    /\ p \in payments
    /\ External("authorize", authorize_args(p))
    /\ Record("authorize", <<p>>, NoError, <<authorize_args(p)>>)
    /\ UNCHANGED <<payments, amount>>
    /\ Remember
    /\ UNCHANGED <<descVars, registerVars>>

Capture(p) ==
    /\ p \in payments
    /\ External("capture", capture_args(p))
    /\ Record("capture", <<p>>, NoError, <<capture_args(p)>>)
    /\ UNCHANGED <<payments, amount>>
    /\ Remember
    /\ UNCHANGED <<descVars, registerVars>>

Cancel(batch) ==
    /\ batch \in Batches
    /\ External("cancel", Flatten(cancel_calls(batch)))
    /\ Record("cancel", batch, NoError, cancel_calls(batch))
    /\ UNCHANGED <<payments, amount>>
    /\ Remember
    /\ UNCHANGED <<descVars, registerVars>>

Delete(batch) ==
    /\ batch \in Batches
    /\ LET r == delete_outcome(batch)
       IN /\ payments' = payments \ UNION {Range(c) : c \in Range(r.super_calls)}
          /\ Record("delete", batch, r.error, r.super_calls)
    /\ UNCHANGED <<amount, txns>>
    /\ Remember
    /\ UNCHANGED <<descVars, registerVars>>

\* ------------------------------------------------ payment description
\* The gateway methods of payment_gateway.gateway; "" is an unset method.
Methods == {"manual", "credit_card", "other", ""}
DigitString == <<"0", "4", "9", "1", "2", "3", "5", "6", "7", "8">>
DigitChars == {DigitString[i] : i \in 1..NumDigitChars}
\* party.payment_profile.last_4_digits
Last4 == {d[1] \o d[2] \o d[3] \o d[4] : d \in [1..4 -> DigitChars]}

NoGateway == [exists |-> FALSE, method |-> ""]
Gateways == {NoGateway} \cup {[exists |-> TRUE, method |-> m] : m \in Methods}
NoProfile == [exists |-> FALSE, last_4_digits |-> ""]
Profiles == {NoProfile} \cup {[exists |-> TRUE, last_4_digits |-> d] : d \in Last4}
NotComputed == "<not computed>"

RECURSIVE Repeat(_, _)
\* Python's str * n
Repeat(s, n) == IF n <= 0 THEN "" ELSE s \o Repeat(s, n - 1)

\* Payment.get_method: self.gateway and self.gateway.method or None
get_method ==
    IF gateway.exists /\ gateway.method # "" THEN gateway.method ELSE None

get_payment_description_four_groups ==
    IF get_method = "manual" THEN "Paid by Cash"
    ELSE IF get_method = "credit_card"
         THEN "Paid by Card " \o "(" \o Repeat("xxxx ", 4)
                \o payment_profile.last_4_digits \o ")"
         ELSE None

\* Payment.get_payment_description
get_payment_description ==
    IF get_method = "manual" THEN "Paid by Cash"
    ELSE IF get_method = "credit_card"
         THEN "Paid by Card " \o "(" \o Repeat("xxxx ", 3)
                \o payment_profile.last_4_digits \o ")"
         ELSE None

\* Reading the `description` field of the payment.
GetPaymentDescription ==
    /\ description = NotComputed
    /\ description' = get_payment_description
    /\ UNCHANGED <<gateway, payment_profile>>
    /\ UNCHANGED <<ledgerVars, registerVars>>

\* ------------------------------------------------ __register__ migration
Digits == "0123456789"

\* ir.property.value of a party's account_receivable: 'account.account,<id>'
PropertyValue(a) == "account.account," \o SubSeq(Digits, a + 1, a + 1)
NoProperty == ""
PropertyValues == {NoProperty} \cup {PropertyValue(a) : a \in Accounts}

\* Substring(property.value, ',.*'): from the first comma to the end
SubstringFromComma(s) ==
    LET commas == {i \in 1..Len(s) : SubSeq(s, i, i) = ","}
    IN IF commas = {} THEN ""
       ELSE SubSeq(s, CHOOSE i \in commas : \A j \in commas : i <= j, Len(s))

RECURSIVE TrimLeading(_, _)
\* Trim(s, 'LEADING', c)
TrimLeading(s, c) ==
    IF Len(s) > 0 /\ SubSeq(s, 1, 1) = c THEN TrimLeading(SubSeq(s, 2, Len(s)), c)
    ELSE s

DigitValue(c) == (CHOOSE i \in 1..Len(Digits) : SubSeq(Digits, i, i) = c) - 1

RECURSIVE CastInteger(_)
\* .cast(cls.credit_account.sql_type().base) of a string of digits
CastInteger(s) ==
    IF s = "" THEN 0
    ELSE CastInteger(SubSeq(s, 1, Len(s) - 1)) * 10 + DigitValue(SubSeq(s, Len(s), Len(s)))

\* The value the UPDATE writes for a joined property row.
MigratedAccount(value) == CastInteger(TrimLeading(SubstringFromComma(value), ","))

\* The UPDATE ... FROM sale, party, property WHERE ...: rows without a
\* matching property row are not updated.
Backfill ==
    [p \in Payments |->
        IF property[p] # NoProperty THEN MigratedAccount(property[p])
        ELSE credit_account[p]]

migration_needed_unguarded == TRUE

\* migration_needed: not table.column_exist('credit_account')
migration_needed == ~columnExists

NoRegister == [test |-> FALSE, migration_needed |-> FALSE, migrated |-> FALSE]

\* Payment.__register__(module_name), with Pool.test = test
Register(test) ==
    /\ registrations < MaxRegistrations
    /\ registrations' = registrations + 1
    /\ columnExists' = TRUE
    /\ IF migration_needed /\ ~test
       THEN /\ credit_account' = Backfill
            /\ migrationRuns' = migrationRuns + 1
       ELSE UNCHANGED <<credit_account, migrationRuns>>
    /\ lastRegister' = [test |-> test, migration_needed |-> migration_needed,
                        migrated |-> migration_needed /\ ~test]
    /\ UNCHANGED property
    /\ UNCHANGED <<ledgerVars, descVars>>

\* A write of the credit_account field of a payment.
WriteCreditAccount(p, a) ==
    /\ columnExists
    /\ credit_account' = [credit_account EXCEPT ![p] = a]
    /\ UNCHANGED <<columnExists, property, registrations, migrationRuns, lastRegister>>
    /\ UNCHANGED <<ledgerVars, descVars>>

\* The receivable account property of the payment's party is set or changed.
SetProperty(p, v) ==
    /\ property' = [property EXCEPT ![p] = v]
    /\ UNCHANGED <<columnExists, credit_account, registrations, migrationRuns, lastRegister>>
    /\ UNCHANGED <<ledgerVars, descVars>>

\* ---------------------------------------------------- specifications
InitLedger ==
    /\ payments = Payments
    /\ amount \in [Payments -> PaymentAmounts]
    /\ txns = <<>>
    /\ lastCall = NoCall
    /\ everConsumed = {}

IdleDesc ==
    /\ gateway = NoGateway
    /\ payment_profile = NoProfile
    /\ description = NotComputed

IdleLedger ==
    /\ payments = Payments
    /\ amount = [p \in Payments |-> MaxAmount]
    /\ txns = <<>>
    /\ lastCall = NoCall
    /\ everConsumed = {}

IdleRegister ==
    /\ columnExists = TRUE
    /\ credit_account = [p \in Payments |-> NULL]
    /\ property = [p \in Payments |-> NoProperty]
    /\ registrations = 0
    /\ migrationRuns = 0
    /\ lastRegister = NoRegister

Init ==
    /\ InitLedger
    /\ IdleDesc
    /\ IdleRegister

Next ==
    \/ \E p \in Payments, a \in TxnAmounts : CreateTransaction(p, a)
    \/ \E p \in Payments : Authorize(p)
    \/ \E p \in Payments : Capture(p)
    \/ \E batch \in Batches : Cancel(batch)
    \/ \E batch \in Batches : Delete(batch)

Spec == Init /\ [][Next]_vars

InitDesc ==
    /\ gateway \in Gateways
    /\ payment_profile \in Profiles
    \* payment_profile is required when the method is credit_card
    /\ (gateway.exists /\ gateway.method = "credit_card") => payment_profile.exists
    /\ description = NotComputed
    /\ IdleLedger
    /\ IdleRegister

NextDesc == GetPaymentDescription

SpecDesc == InitDesc /\ [][NextDesc]_vars

InitRegister ==
    /\ columnExists = FALSE
    /\ credit_account = [p \in Payments |-> NULL]
    /\ property \in [Payments -> PropertyValues]
    /\ registrations = 0
    /\ migrationRuns = 0
    /\ lastRegister = NoRegister
    /\ IdleLedger
    /\ IdleDesc

NextRegister ==
    \/ \E test \in BOOLEAN : Register(test)
    \/ \E p \in Payments, a \in Accounts : WriteCreditAccount(p, a)
    \/ \E p \in Payments, v \in PropertyValues : SetProperty(p, v)

SpecRegister == InitRegister /\ [][NextRegister]_vars

\* ================================================================ claims
RECURSIVE SetSum(_)
\* Sum of the amounts of a set of transaction ids.
SetSum(S) ==
    IF S = {} THEN 0
    ELSE LET x == CHOOSE x \in S : TRUE IN txns[x].amount + SetSum(S \ {x})

\* The transactions of payment p whose state is in `states`.
TxnsIn(p, states) ==
    {i \in 1..Len(txns) : txns[i].sale_payment = p /\ txns[i].state \in states}

NoDuplicates(s) == \A i, j \in DOMAIN s : i # j => s[i] # s[j]

\* C1: for every payment, amount_available equals
\* max(amount - amount_consumed, 0) and is never negative, amount_consumed
\* being the sum of the amounts of the payment's transactions in state
\* authorized, completed or posted.
C1_AmountAvailable ==
    \A p \in payments :
        /\ get_amount(p, "amount_available")
             = Max(amount[p] - SetSum(TxnsIn(p, {"authorized", "completed", "posted"})), 0)
        /\ get_amount(p, "amount_available") >= 0

\* C1 witness: consumption exceeds the amount and the available amount is 0.
C1_Witness ==
    \E p \in payments :
        /\ amount[p] - SetSum(TxnsIn(p, {"authorized", "completed", "posted"})) < 0
        /\ get_amount(p, "amount_available") = 0
        /\ lastCall.op = "capture"

\* C2: for every payment, amount_consumed = amount_authorized +
\* amount_captured; a transaction counts in amount_consumed exactly when it
\* counts in one of amount_authorized (authorized) or amount_captured
\* (completed, posted); draft, in-progress and cancelled count in none.
C2_ConsumedSplit ==
    \A p \in payments :
        /\ get_amount(p, "amount_consumed")
             = get_amount(p, "amount_authorized") + get_amount(p, "amount_captured")
        /\ get_amount(p, "amount_authorized") = SetSum(TxnsIn(p, {"authorized"}))
        /\ get_amount(p, "amount_captured") = SetSum(TxnsIn(p, {"completed", "posted"}))
        /\ get_amount(p, "amount_consumed")
             = SetSum(TxnsIn(p, TxnStates \ {"draft", "in-progress", "cancelled"}))

\* C2 witness: one payment with an authorized, a captured and an uncounted
\* transaction.
C2_Witness ==
    \E p \in payments :
        /\ get_amount(p, "amount_authorized") > 0
        /\ get_amount(p, "amount_captured") > 0
        /\ SetSum(TxnsIn(p, {"draft", "in-progress", "cancelled"})) > 0

\* C3: delete on a payment whose amount_consumed is greater than zero fails
\* with cannot_delete_payment and the payment remains; delete on a payment
\* whose amount_consumed is zero succeeds and the payment is removed.
C3_DeleteGuard ==
    [][lastCall'.op = "delete" =>
        LET b == lastCall'.arg
        IN /\ \A i \in DOMAIN b :
                get_amount(b[i], "amount_consumed") > 0 =>
                    /\ lastCall'.error = "cannot_delete_payment"
                    /\ b[i] \in payments'
           /\ (Len(b) = 1 /\ get_amount(b[1], "amount_consumed") = 0) =>
                    /\ lastCall'.error = NoError
                    /\ b[1] \notin payments']_vars

\* C3 witness: a delete of one consumed payment was refused after a delete
\* of an unconsumed payment went through.
C3_Witness ==
    /\ lastCall.op = "delete"
    /\ Len(lastCall.arg) = 1
    /\ lastCall.error = "cannot_delete_payment"
    /\ lastCall.arg[1] \in payments
    /\ get_amount(lastCall.arg[1], "amount_consumed") > 0
    /\ payments # Payments

\* C4: delete is all-or-nothing over the batch: when some payment of the
\* batch has nonzero amount_consumed the call raises and no payment of the
\* batch is deleted; otherwise the underlying delete is invoked once, with
\* the whole batch.
C4_DeleteAllOrNothing ==
    [][lastCall'.op = "delete" =>
        LET b == lastCall'.arg
        IN IF \E i \in DOMAIN b : get_amount(b[i], "amount_consumed") # 0
           THEN /\ lastCall'.error = "cannot_delete_payment"
                /\ lastCall'.ext = <<>>
                /\ payments' = payments
           ELSE /\ lastCall'.error = NoError
                /\ lastCall'.ext = <<b>>
                /\ payments' = payments \ Range(b)]_vars

\* C4 witness: a refused batch whose first payment has no consumption and
\* whose second has some; the first is still there.
C4_Witness ==
    /\ lastCall.op = "delete"
    /\ lastCall.error = "cannot_delete_payment"
    /\ Len(lastCall.arg) = 2
    /\ get_amount(lastCall.arg[1], "amount_consumed") = 0
    /\ get_amount(lastCall.arg[2], "amount_consumed") # 0
    /\ lastCall.arg[1] \in payments

\* C5: authorize() forwards to the external authorize operation exactly the
\* payment's transactions in state draft, and no other transaction is
\* forwarded or changed.
C5_AuthorizeForwardsDrafts ==
    [][lastCall'.op = "authorize" =>
        LET drafts == TxnsIn(lastCall'.arg[1], {"draft"})
        IN /\ Len(lastCall'.ext) = 1
           /\ Range(lastCall'.ext[1]) = drafts
           /\ NoDuplicates(lastCall'.ext[1])
           /\ DOMAIN txns' = DOMAIN txns
           /\ \A i \in DOMAIN txns \ drafts : txns'[i] = txns[i]]_vars

\* C5 witness: an authorize that forwarded something while the payment had a
\* completed transaction and another payment had a draft one.
C5_Witness ==
    /\ lastCall.op = "authorize"
    /\ lastCall.ext[1] # <<>>
    /\ TxnsIn(lastCall.arg[1], {"completed"}) # {}
    /\ \E q \in Payments \ {lastCall.arg[1]} : TxnsIn(q, {"draft"}) # {}

\* C6: capture() forwards to the external capture operation exactly the
\* payment's transactions in state draft, authorized or in-progress;
\* completed, posted and cancelled transactions are never forwarded.
C6_CaptureForwardsOpen ==
    [][lastCall'.op = "capture" =>
        LET open == TxnsIn(lastCall'.arg[1], {"draft", "authorized", "in-progress"})
        IN /\ Len(lastCall'.ext) = 1
           /\ Range(lastCall'.ext[1]) = open
           /\ NoDuplicates(lastCall'.ext[1])
           /\ \A i \in Range(lastCall'.ext[1]) :
                 txns[i].state \notin {"completed", "posted", "cancelled"}]_vars

\* C6 witness: a capture that forwarded something while the payment already
\* had a captured transaction, which it left out.
C6_Witness ==
    /\ lastCall.op = "capture"
    /\ lastCall.ext[1] # <<>>
    /\ \E i \in TxnsIn(lastCall.arg[1], {"completed", "posted"}) :
            i \notin Range(lastCall.ext[1])

\* Position of payment p in the batch b.
PositionIn(b, p) == CHOOSE k \in DOMAIN b : b[k] = p

\* C7: cancel(payments) invokes the external cancel operation exactly once
\* per call, with the concatenation of every transaction of every given
\* payment whatever its state; once with an empty list when there is none.
C7_CancelOneBatchedCall ==
    [][lastCall'.op = "cancel" =>
        LET b == lastCall'.arg
        IN /\ Len(lastCall'.ext) = 1
           /\ LET fwd == lastCall'.ext[1]
              IN /\ Range(fwd) = UNION {TxnsIn(b[k], TxnStates) : k \in DOMAIN b}
                 /\ NoDuplicates(fwd)
                 /\ \A x, y \in DOMAIN fwd :
                       x < y =>
                         LET px == PositionIn(b, txns[fwd[x]].sale_payment)
                             py == PositionIn(b, txns[fwd[y]].sale_payment)
                         IN px < py \/ (px = py /\ fwd[x] < fwd[y])]_vars

\* C7 witness: a cancel of two payments that forwarded transactions of both,
\* a completed one among them.
C7_Witness ==
    /\ lastCall.op = "cancel"
    /\ Len(lastCall.arg) = 2
    /\ Len(lastCall.ext) = 1
    /\ \A k \in 1..2 : \E i \in Range(lastCall.ext[1]) :
            txns[i].sale_payment = lastCall.arg[k]
    /\ \E i \in Range(lastCall.ext[1]) : txns[i].state = "completed"

\* C8: get_payment_description returns "Paid by Cash" when the gateway
\* method is manual and "Paid by Card (xxxx xxxx xxxx <last4>)", <last4>
\* the profile's last four digits, when it is credit_card.
C8_Description ==
    description # NotComputed =>
        /\ (gateway.exists /\ gateway.method = "manual") =>
                description = "Paid by Cash"
        /\ (gateway.exists /\ gateway.method = "credit_card") =>
                description = "Paid by Card (xxxx xxxx xxxx "
                                \o payment_profile.last_4_digits \o ")"

\* C8 witness: the description of a card payment was computed.
C8_Witness ==
    /\ description # NotComputed
    /\ gateway.exists
    /\ gateway.method = "credit_card"
    /\ Len(description) = 34

\* C9 as stated: a payment whose amount_consumed was ever nonzero is never
\* deleted afterwards.
C9_Original == everConsumed \subseteq payments

\* C9 amended: no operation deletes a payment whose amount_consumed is
\* nonzero in the state it is applied to.
C9_DeleteBlockedWhileConsumed ==
    [][\A p \in payments :
          get_amount(p, "amount_consumed") # 0 => p \in payments']_vars

\* C9 witness: a delete was refused for a payment that still has consumption
\* after one of its transactions was cancelled.
C9_Witness ==
    /\ lastCall.op = "delete"
    /\ lastCall.error = "cannot_delete_payment"
    /\ \E p \in Range(lastCall.arg) :
          /\ get_amount(p, "amount_consumed") # 0
          /\ TxnsIn(p, {"cancelled"}) # {}

\* C10 as stated: once a registration has happened, the back-fill has run
\* exactly once.
C10_Original == registrations >= 1 => migrationRuns = 1

\* C10 amended: a registration runs the back-fill exactly when it finds the
\* column missing and is not in test mode; the back-fill runs at most once,
\* and a registration that finds the column leaves credit_account unchanged.
C10_MigrationAtMostOnce ==
    [][registrations' = registrations + 1 =>
        /\ migrationRuns' = migrationRuns + 1 <=> (~columnExists /\ ~lastRegister'.test)
        /\ migrationRuns' \in {migrationRuns, migrationRuns + 1}
        /\ migrationRuns' <= 1
        /\ migrationRuns' = migrationRuns => credit_account' = credit_account
        /\ columnExists' ]_vars

\* C10 witness: after a second registration the back-fill has run once and
\* some payment's credit_account differs from what a rerun would write.
C10_Witness ==
    /\ registrations >= 2
    /\ migrationRuns = 1
    /\ \E p \in Payments :
          /\ property[p] # NoProperty
          /\ credit_account[p] # MigratedAccount(property[p])

====
